---- MODULE Spec2Model ----
(***************************************************************************)
(* The ledger-and-budget engine of the Budget-Planner application: the     *)
(* FinanceProvider of the finance context (transactions, budgets, savings  *)
(* goals, round-up accumulator, and the two advisory readers).             *)
(*                                                                         *)
(* Numbers.  Amounts are JavaScript numbers; the model keeps them exactly  *)
(* as integers counted in hundredths (Unit = 100 hundredths = 1.00), so    *)
(* 99.40 is 9940 and Math.ceil rounds up to the next multiple of Unit.     *)
(* A quotient is kept as a reduced fraction or as one of the IEEE values   *)
(* Infinity, -Infinity, NaN that a division by zero produces.              *)
(*                                                                         *)
(* Specifications.  Spec follows the mutators with a re-render after every *)
(* call; SameRenderSpec lets several calls run in the closures of one      *)
(* render; QuerySpec follows the two readers on the stores the mutators    *)
(* reach; AuthSpec follows the authentication provider (AuthContext.tsx)   *)
(* and the timers its calls await; VoiceSpec follows the voice entry modal *)
(* (VoiceTransactionModal), the recognition's events and its timeouts.     *)
(***************************************************************************)
EXTENDS Integers, Sequences, FiniteSets

VARIABLES
    transactions,    \* useState<Transaction[]>: the list, head first
    savings,         \* useState<SavingsGoal[]>
    budgets,         \* useState<Budget[]>: the array of {category, limit, spent}
    roundUpSavings,  \* useState<number>, in hundredths
    rendered,        \* what the closures of the last render captured
    now,             \* the last reading Date.now() returned
    returned,        \* the values the last mutator call gave back: none for void
    call,            \* history: the last mutator call made on the context
    run,             \* history: the current run of addTransaction calls
    allNonNegative,  \* history: no amount passed so far was below zero
    calls,           \* history: number of mutator calls made so far
    user,            \* AuthProvider, useState<User | null>
    isAuthenticated, \* AuthProvider, useState<boolean>
    localStorage,    \* the entries of window.localStorage, by key
    pending,         \* the login, register and socialLogin calls awaiting
                     \* their timer
    authCall,        \* history: the last step of the auth provider
    authCalls,       \* history: number of auth calls made so far
    answer,          \* what the last call of a reader returned
    isOpen,          \* VoiceTransactionModal, the prop its parent passes
    isListening,     \* VoiceTransactionModal, useState(false)
    transcript,      \* VoiceTransactionModal, useState(''): the words heard
    parsedTransaction, \* VoiceTransactionModal, useState<any>(null)
    isProcessing,    \* VoiceTransactionModal, useState(false)
    speechRecognition, \* whether the browser has a SpeechRecognition
    recognitions,    \* the SpeechRecognition objects started and not ended
    timers,          \* the timeouts the modal has set and that are not run
    committed,       \* history: addTransaction calls made for the current
                     \* parsedTransaction
    voiceCalls       \* history: number of user actions on the modal so far

financeVars == <<transactions, savings, budgets, roundUpSavings, rendered,
                 returned, call, run, allNonNegative, calls>>

authVars == <<user, isAuthenticated, localStorage, pending, authCall, authCalls>>

vars == <<transactions, savings, budgets, roundUpSavings, rendered, now,
          returned, call, run, allNonNegative, calls,
          user, isAuthenticated, localStorage, pending, authCall, authCalls,
          answer, isOpen, isListening, transcript, parsedTransaction,
          isProcessing, speechRecognition, recognitions, timers, committed,
          voiceCalls>>

voiceVars == <<isOpen, isListening, transcript, parsedTransaction,
               isProcessing, speechRecognition, recognitions, timers,
               committed, voiceCalls>>

\* what the finance provider's calls leave alone, and the auth provider's
outsideFinance == <<authVars, answer, voiceVars>>
outsideAuth == <<financeVars, answer, voiceVars>>

(***************************************************************************)
(* Bounds of the model.                                                    *)
(***************************************************************************)
MaxCalls == 3

\* the auth provider is followed for at most MaxAuthCalls calls
MaxAuthCalls == 3

\* the readers are asked about stores with at most MaxAdded added records
MaxAdded == 1

\* the voice modal is followed for at most MaxVoiceCalls user actions
MaxVoiceCalls == 3

\* hundredths per whole currency unit: the fixed-point reading of `number`
Unit == 100

\* the first reading of the clock; the seeded ids '1', '2', '3' lie far below
\* any reading Date.now() gives
FirstNow == 10 + Len(<<1, 2, 3>>)

(***************************************************************************)
(* Helpers on arrays and numbers.  Array.prototype.filter is SelectSeq.    *)
(***************************************************************************)
RECURSIVE SumAmounts(_)
SumAmounts(s) ==
    IF s = <<>> THEN 0 ELSE Head(s).amount + SumAmounts(Tail(s))

\* Array.prototype.find: the element at the least of the indices `hits` that
\* satisfy the callback, or "undefined" when none does
Undefined == [undefined |-> TRUE]
Find(s, hits) ==
    IF hits = {} THEN Undefined
    ELSE s[CHOOSE i \in hits : \A j \in hits : i <= j]

Max(a, b) == IF a >= b THEN a ELSE b

\* Math.ceil on a number held in hundredths
Ceil(a) == IF a % Unit = 0 THEN a ELSE a + (Unit - (a % Unit))

\* Number.prototype.toString for a non-negative integer: its decimal digits
RECURSIVE ToString(_)
ToString(n) ==
    IF n < 10 THEN <<n>> ELSE Append(ToString(n \div 10), n % 10)

(***************************************************************************)
(* Seeded state of the provider.                                           *)
(***************************************************************************)
SeedTransactions ==
    << [id |-> ToString(1), amount |-> 2500 * Unit, category |-> "Food",
        description |-> "Grocery shopping", date |-> <<2024, 0, 15>>,
        type |-> "expense"],
       [id |-> ToString(2), amount |-> 5000 * Unit, category |-> "Salary",
        description |-> "Monthly salary", date |-> <<2024, 0, 1>>,
        type |-> "income"],
       [id |-> ToString(3), amount |-> 800 * Unit, category |-> "Transportation",
        description |-> "Uber rides", date |-> <<2024, 0, 10>>,
        type |-> "expense"] >>

SeedSavings ==
    << [id |-> ToString(1), name |-> "Emergency Fund", target |-> 50000 * Unit,
        current |-> 15000 * Unit, deadline |-> <<2024, 11, 31>>],
       [id |-> ToString(2), name |-> "Vacation", target |-> 25000 * Unit,
        current |-> 8500 * Unit, deadline |-> <<2024, 5, 30>>] >>

SeedBudgets ==
    << [category |-> "Food", limit |-> 5000 * Unit, spent |-> 2500 * Unit],
       [category |-> "Transportation", limit |-> 2000 * Unit, spent |-> 800 * Unit],
       [category |-> "Entertainment", limit |-> 3000 * Unit, spent |-> 1200 * Unit],
       [category |-> "Shopping", limit |-> 4000 * Unit, spent |-> 3500 * Unit] >>

SeedRoundUp == 450 * Unit

(***************************************************************************)
(* Inputs the callers may pass.  The engine validates none of them.        *)
(***************************************************************************)
Types == {"income", "expense"}

Input(amount, category, type) ==
    [amount |-> amount, category |-> category, description |-> "entry",
     date |-> <<2024, 1, 1>>, type |-> type]

TxInputs ==
    { Input(2500 * Unit, "Food", "expense"),
      Input(-300060, "Food", "expense"),
      Input(9940, "Other", "expense"),
      Input(9940, "Food", "income") }

GoalInputs ==
    {[name |-> "Laptop", target |-> 60000 * Unit, current |-> 0,
      deadline |-> <<2025, 0, 1>>]}

\* (category, limit) pairs passed to updateBudget
LimitInputs == {<<"Food", 0>>, <<"Other", 1000 * Unit>>}

QueryAmounts == {-3000 * Unit, 0, 1700 * Unit, 2600 * Unit}

\* amounts passed to checkRegretRisk: those above and 1500, which brings the
\* seeded Food category to exactly 0.8 of its limit
RiskAmounts == QueryAmounts \cup {1500 * Unit}

QueryCategories == {"Food", "Other"}

\* identifiers a caller may name: those in the store and one nobody has
IdInputs == {transactions[i].id : i \in 1..Len(transactions)} \cup {ToString(0)}

(***************************************************************************)
(* JavaScript number results of a division, and the operations the readers *)
(* apply to them.                                                          *)
(***************************************************************************)
Abs(x) == IF x < 0 THEN -x ELSE x

RECURSIVE Gcd(_, _)
Gcd(a, b) == IF b = 0 THEN a ELSE Gcd(b, a % b)

NaN == [kind |-> "NaN", num |-> 0, den |-> 0]
PosInfinity == [kind |-> "Infinity", num |-> 1, den |-> 0]
NegInfinity == [kind |-> "-Infinity", num |-> -1, den |-> 0]

\* the finite number p/q (q > 0), reduced
Fraction(p, q) ==
    LET g == Gcd(Abs(p), q)
    IN  [kind |-> "finite", num |-> p \div g, den |-> q \div g]

\* x / y on numbers
Divide(x, y) ==
    IF y = 0
    THEN IF x = 0 THEN NaN ELSE IF x > 0 THEN PosInfinity ELSE NegInfinity
    ELSE IF y > 0 THEN Fraction(x, y) ELSE Fraction(-x, -y)

\* r > p/q (q > 0); every comparison with NaN is false
GreaterThan(r, p, q) ==
    CASE r.kind = "NaN" -> FALSE
      [] r.kind = "Infinity" -> TRUE
      [] r.kind = "-Infinity" -> FALSE
      [] OTHER -> r.num * q > p * r.den

\* Math.min(r, 1): NaN if r is NaN, else the smaller
MinWithOne(r) ==
    IF r.kind = "NaN" THEN NaN
    ELSE IF GreaterThan(r, 1, 1) THEN Fraction(1, 1) ELSE r

(***************************************************************************)
(* addTransaction                                                          *)
(***************************************************************************)
\* the identifier addTransaction assigns
NewId(clock) == ToString(clock)

NewTransaction(t, clock) ==
    [id |-> NewId(clock), amount |-> t.amount, category |-> t.category,
     description |-> t.description, date |-> t.date, type |-> t.type]

\* slip: the new record goes to the end of the list
PrependAtEnd(prev, newTransaction) == prev \o <<newTransaction>>

\* setTransactions(prev => [newTransaction, ...prev])
Prepend(prev, newTransaction) == <<newTransaction>> \o prev

\* slip: the fractional part is taken instead of what is missing to the next
\* whole number
RoundUpFraction(amount) == amount % Unit

\* Math.ceil(amount) - amount
RoundUp(amount) == Ceil(amount) - amount

\* slip: the round-up is taken on incomes too
AddRoundUpAnyType(prev, t) ==
    IF RoundUp(t.amount) > 0 THEN prev + RoundUp(t.amount) ELSE prev

\* the round-up accumulator after addTransaction(t)
AddRoundUp(prev, t) ==
    IF t.type = "expense"
    THEN IF RoundUp(t.amount) > 0 THEN prev + RoundUp(t.amount) ELSE prev
    ELSE prev

\* slip: the amount is subtracted where it is to be added
ApplySpentNegated(prev, t) ==
    LET F(budget) == IF budget.category = t.category
                     THEN [budget EXCEPT !.spent = budget.spent - t.amount]
                     ELSE budget
    IN  [i \in 1..Len(prev) |-> F(prev[i])]

\* slip: a category without entry gets one
ApplySpentUpsert(prev, t) ==
    LET F(budget) == IF budget.category = t.category
                     THEN [budget EXCEPT !.spent = budget.spent + t.amount]
                     ELSE budget
    IN  IF \E i \in 1..Len(prev) : prev[i].category = t.category
        THEN [i \in 1..Len(prev) |-> F(prev[i])]
        ELSE Append(prev, [category |-> t.category, limit |-> 0,
                           spent |-> t.amount])

\* prev.map(budget => budget.category === t.category
\*                      ? {...budget, spent: budget.spent + t.amount} : budget)
ApplySpent(prev, t) ==
    LET F(budget) == IF budget.category = t.category
                     THEN [budget EXCEPT !.spent = budget.spent + t.amount]
                     ELSE budget
    IN  [i \in 1..Len(prev) |-> F(prev[i])]

\* prev.map(budget => budget.category === old.category
\*       ? {...budget, spent: Math.max(0, budget.spent - old.amount)} : budget)
ReverseSpent(prev, old) ==
    LET F(budget) == IF budget.category = old.category
                     THEN [budget EXCEPT !.spent = Max(0, budget.spent - old.amount)]
                     ELSE budget
    IN  [i \in 1..Len(prev) |-> F(prev[i])]

\* slip: incomes are counted as spending
AddBudgetsAnyType(prev, t) == ApplySpent(prev, t)

\* the budgets after addTransaction(t)
AddBudgets(prev, t) ==
    IF t.type = "expense" THEN ApplySpent(prev, t) ELSE prev

(***************************************************************************)
(* Reading the budgets array.                                              *)
(***************************************************************************)
HasBudget(bs, c) == \E i \in 1..Len(bs) : bs[i].category = c

\* budgets.find(b => b.category === c)
BudgetOf(bs, c) == Find(bs, {i \in 1..Len(bs) : bs[i].category = c})

BudgetCategories(bs) == {bs[i].category : i \in 1..Len(bs)}

\* category -> spent, for the categories that have an entry
SpentMap(bs) == [c \in BudgetCategories(bs) |-> BudgetOf(bs, c).spent]

(***************************************************************************)
(* The record of the last call and the bookkeeping of add runs.            *)
(***************************************************************************)
\* op, id: the mutator and the identifier it was given or assigned;
\* found: whether editTransaction / deleteTransaction found the identifier;
\* category, type, before: for addTransaction(t), t.category, t.type and
\*   Budget(t.category).spent when the call was made (0 without an entry);
\* undo: a deleteTransaction of the identifier the call just before it, an
\*   addTransaction, assigned; it carries that call's category, type, before
NoCall ==
    [op |-> "none", id |-> <<>>, found |-> FALSE, category |-> "", type |-> "",
     before |-> 0, undo |-> FALSE]

Called(op, id, found) == [NoCall EXCEPT !.op = op, !.id = id, !.found = found]

\* a run of addTransaction calls: the spent values when it began and, per
\* budget category, the expense amounts added since
NewRun(bs) ==
    [base |-> SpentMap(bs), added |-> [c \in BudgetCategories(bs) |-> 0]]

ExtendRun(r, t) ==
    [r EXCEPT !.added = [c \in DOMAIN r.added |->
        IF t.type = "expense" /\ t.category = c
        THEN r.added[c] + t.amount ELSE r.added[c]]]

(***************************************************************************)
(* The authentication provider (AuthContext.tsx).                          *)
(***************************************************************************)
\* null
Null == [null |-> TRUE]

\* localStorage with no entry, and with one entry
NoEntries == [key \in {} |-> <<>>]
Entry(key, value) == [k \in {key} |-> value]

Avatar ==
    "https://images.pexels.com/photos/220453/pexels-photo-220453.jpeg?auto=compress&cs=tinysrgb&w=150"

\* JSON.stringify(mockUser): the members in the order they were written
Stringify(u) ==
    <<"id", u.id, "name", u.name, "email", u.email, "avatar", u.avatar>>

\* JSON.parse of such a text
Parse(text) ==
    [id |-> text[2], name |-> text[4], email |-> text[6], avatar |-> text[8]]

\* calls made on the provider; a template string is the tuple of its parts
Emails == {"john@example.com"}
Names == {"Ann"}
Providers == {"google"}
Passwords == {"secret"}

\* the user an earlier visit may have left in localStorage
SavedUser ==
    [id |-> ToString(1), name |-> <<"John Doe">>,
     email |-> <<"john@example.com">>, avatar |-> Avatar]

\* the provider after its mount effect, which restores a saved session
Mounted(entries) ==
    /\ localStorage = entries
    /\ IF "financeApp_user" \in DOMAIN entries
       THEN /\ user = Parse(entries["financeApp_user"])
            /\ isAuthenticated = TRUE
       ELSE /\ user = Null
            /\ isAuthenticated = FALSE
    /\ pending = {}
    /\ authCall = [op |-> "none", n |-> 0, stale |-> FALSE]
    /\ authCalls = 0

\* milliseconds between two events of the auth provider
AuthElapsed == {0, 500, 1000}

\* setTimeout(resolve, 1000), and 1500 for socialLogin
Delay(kind) == IF kind = "socialLogin" THEN 1500 ELSE 1000

\* the event loop runs a timer that is due before it handles a later event
NoTimerDueBefore(clock) == \A p \in pending : p.due >= clock

\* the call is made and awaits its timer
Start(kind, args, elapsed) ==
    /\ authCalls < MaxAuthCalls
    /\ authCalls' = authCalls + 1
    /\ now' = now + elapsed
    /\ NoTimerDueBefore(now')
    /\ pending' = pending \cup
          {[n |-> authCalls', kind |-> kind, args |-> args,
            due |-> now' + Delay(kind), stale |-> FALSE]}
    /\ authCall' = [op |-> kind, n |-> authCalls', stale |-> FALSE]
    /\ UNCHANGED <<user, isAuthenticated, localStorage>>

Login(email, password, elapsed) == Start("login", <<email, password>>, elapsed)

Register(name, email, password, elapsed) ==
    Start("register", <<name, email, password>>, elapsed)

SocialLogin(provider, elapsed) == Start("socialLogin", <<provider>>, elapsed)

\* the mockUser the call builds once its timer has fired
MockUser(p, clock) ==
    CASE p.kind = "login" ->
           [id |-> ToString(1), name |-> <<"John Doe">>,
            email |-> <<p.args[1]>>, avatar |-> Avatar]
      [] p.kind = "register" ->
           [id |-> ToString(clock), name |-> <<p.args[1]>>,
            email |-> <<p.args[2]>>, avatar |-> Avatar]
      [] p.kind = "socialLogin" ->
           [id |-> ToString(clock), name |-> <<"User from ", p.args[1]>>,
            email |-> <<"user@", p.args[1], ".com">>, avatar |-> Avatar]

\* the rest of login, register and socialLogin after the await:
\* the timers fire in the order of their due time, equal ones in the order
\* they were set
Resume(p) ==
    /\ p \in pending
    /\ \A q \in pending : p.due < q.due \/ (p.due = q.due /\ p.n <= q.n)
    /\ now' = Max(now, p.due)
    /\ user' = MockUser(p, now')
    /\ isAuthenticated' = TRUE
    /\ localStorage' = Entry("financeApp_user", Stringify(user'))
    /\ pending' = pending \ {p}
    /\ authCall' = [op |-> "resume", n |-> p.n, stale |-> p.stale]
    /\ UNCHANGED authCalls

\* logout(); the history marks the calls still awaiting their timer
Logout(elapsed) ==
    /\ authCalls < MaxAuthCalls
    /\ authCalls' = authCalls + 1
    /\ now' = now + elapsed
    /\ NoTimerDueBefore(now')
    /\ user' = Null
    /\ isAuthenticated' = FALSE
    /\ localStorage' = NoEntries
    /\ pending' = {[p EXCEPT !.stale = TRUE] : p \in pending}
    /\ authCall' = [op |-> "logout", n |-> authCalls', stale |-> FALSE]

(***************************************************************************)
(* The voice entry modal (VoiceTransactionModal).                          *)
(***************************************************************************)
\* the modal as mounted by its parent: closed, nothing heard
VoiceMounted(supported) ==
    /\ speechRecognition = supported
    /\ isOpen = FALSE
    /\ isListening = FALSE
    /\ transcript = <<>>
    /\ parsedTransaction = Null
    /\ isProcessing = FALSE
    /\ recognitions = {}
    /\ timers = <<>>
    /\ committed = 0
    /\ voiceCalls = 0

\* the characters of a transcript; Rupee stands for the sign U+20B9
Rupee == "Rs"
Digits == <<"0", "1", "2", "3", "4", "5", "6", "7", "8", "9">>
IsDigit(c) == \E i \in 1..Len(Digits) : Digits[i] = c
DigitValue(c) == (CHOOSE i \in 1..Len(Digits) : Digits[i] = c) - 1

\* event.results[0][0].transcript: what the recognition may hear
Transcripts ==
    { <<"L", "u", "n", "c", "h", " ", Rupee, "2", "5", "0">>,
      <<"e", "a", "r", "n", "e", "d", " ", Rupee, "9", " ", "U", "b", "e", "r">>,
      <<"t", "e", "a", " ", "4", "0", " ", Rupee>> }

\* String.prototype.toLowerCase on the letters the transcripts hold
LowerChar(c) ==
    CASE c = "L" -> "l"
      [] c = "U" -> "u"
      [] OTHER -> c

ToLowerCase(text) == [i \in 1..Len(text) |-> LowerChar(text[i])]

\* String.prototype.includes
Includes(text, word) ==
    \E i \in 1..(Len(text) - Len(word) + 1) :
        SubSeq(text, i, i + Len(word) - 1) = word

\* the run of digits of text that begins at position i
RECURSIVE DigitRun(_, _)
DigitRun(text, i) ==
    IF i <= Len(text) /\ IsDigit(text[i])
    THEN <<text[i]>> \o DigitRun(text, i + 1)
    ELSE <<>>

\* text.match(/Rupee(\d+)/): the capture of the leftmost match, in a
\* one-element sequence, or the empty sequence for null
Match(text) ==
    LET hits == {i \in 1..Len(text) :
                    text[i] = Rupee /\ DigitRun(text, i + 1) # <<>>}
    IN  IF hits = {} THEN <<>>
        ELSE <<DigitRun(text, 1 + CHOOSE i \in hits : \A j \in hits : i <= j)>>

\* parseInt on a string of decimal digits, in hundredths
RECURSIVE ParseDigits(_)
ParseDigits(digits) ==
    IF digits = <<>> THEN 0
    ELSE 10 * ParseDigits(SubSeq(digits, 1, Len(digits) - 1))
         + DigitValue(digits[Len(digits)])

ParseInt(digits) == ParseDigits(digits) * Unit

\* amountMatch ? parseInt(amountMatch[1]) : 0
ParsedAmount(text) ==
    LET amountMatch == Match(text)
    IN  IF amountMatch # <<>> THEN ParseInt(amountMatch[1]) ELSE 0


\* the if / else-if chain on text.toLowerCase().includes(...)
Classify(text) ==
    LET lower == ToLowerCase(text)
        Has(w) == Includes(lower, w)
    IN  IF Has(<<"i", "n", "c", "o", "m", "e">>) \/ Has(<<"e", "a", "r", "n">>)
        THEN [type |-> "income", category |-> "Salary"]
        ELSE IF Has(<<"f", "o", "o", "d">>) \/ Has(<<"l", "u", "n", "c", "h">>)
        THEN [type |-> "expense", category |-> "Food"]
        ELSE IF Has(<<"t", "r", "a", "n", "s", "p", "o", "r", "t">>)
                \/ Has(<<"u", "b", "e", "r">>)
        THEN [type |-> "expense", category |-> "Transportation"]
        ELSE IF Has(<<"s", "h", "o", "p", "p", "i", "n", "g">>)
                \/ Has(<<"c", "l", "o", "t", "h", "e", "s">>)
        THEN [type |-> "expense", category |-> "Shopping"]
        ELSE IF Has(<<"s", "a", "v", "i", "n", "g">>)
        THEN [type |-> "expense", category |-> "Savings"]
        ELSE [type |-> "expense", category |-> "Other"]

\* the object passed to setParsedTransaction; new Date() is the clock
Candidate(text, clock) ==
    [amount |-> ParsedAmount(text), category |-> Classify(text).category,
     description |-> text, type |-> Classify(text).type, date |-> <<clock>>]

(***************************************************************************)
(* The state after construction.                                           *)
(***************************************************************************)
FinanceInit ==
    /\ transactions = SeedTransactions
    /\ savings = SeedSavings
    /\ budgets = SeedBudgets
    /\ roundUpSavings = SeedRoundUp
    /\ rendered = [transactions |-> SeedTransactions, budgets |-> SeedBudgets]
    /\ now = FirstNow
    /\ returned = <<>>
    /\ call = NoCall
    /\ allNonNegative = TRUE
    /\ run = NewRun(SeedBudgets)
    /\ calls = 0

\* no reader has been called
NoAnswer == [op |-> "none"]

\* both providers mounted, with no session saved by an earlier visit
Init ==
    FinanceInit /\ Mounted(NoEntries) /\ answer = NoAnswer
    /\ VoiceMounted(TRUE)

\* the model follows runs of at most MaxCalls mutator calls
Count == calls < MaxCalls /\ calls' = calls + 1

(***************************************************************************)
(* The mutators.  Each is the whole handler; the snapshot the closures see *)
(* (rendered) is settled by the specification that schedules the calls.    *)
(***************************************************************************)
\* slip: the handler gives the new identifier back
AddTransactionReturnsId(newTransaction) == <<newTransaction.id>>

\* the handler has no return statement: (transaction) => void
AddTransactionReturns(newTransaction) == <<>>

AddTransaction(t, elapsed) ==
    /\ Count
    /\ now' = now + elapsed
    /\ transactions' = Prepend(transactions, NewTransaction(t, now'))
    /\ returned' = AddTransactionReturns(NewTransaction(t, now'))
    /\ roundUpSavings' = AddRoundUp(roundUpSavings, t)
    /\ budgets' = AddBudgets(budgets, t)
    /\ call' = [Called("addTransaction", NewId(now'), FALSE) EXCEPT
                  !.category = t.category, !.type = t.type,
                  !.before = IF HasBudget(budgets, t.category)
                             THEN BudgetOf(budgets, t.category).spent ELSE 0]
    /\ allNonNegative' = (allNonNegative /\ t.amount >= 0)
    /\ run' = ExtendRun(run, t)
    /\ UNCHANGED savings

\* slip: an identifier nobody has falls back to the record at the head
LookupOrFirst(snapshot, id) ==
    LET hits == {i \in 1..Len(snapshot) : snapshot[i].id = id}
    IN  IF hits = {} /\ snapshot # <<>> THEN snapshot[1] ELSE Find(snapshot, hits)

\* transactions.find(t => t.id === id), on the snapshot of the last render
Lookup(snapshot, id) ==
    Find(snapshot, {i \in 1..Len(snapshot) : snapshot[i].id = id})

\* prev.map(t => t.id === id ? {...transaction, id} : t)
ReplaceById(prev, id, t) ==
    LET F(x) == IF x.id = id
                THEN [id |-> id, amount |-> t.amount, category |-> t.category,
                      description |-> t.description, date |-> t.date,
                      type |-> t.type]
                ELSE x
    IN  [i \in 1..Len(prev) |-> F(prev[i])]

\* prev.filter(t => t.id !== id)
RemoveById(prev, id) == LET P(x) == x.id # id IN SelectSeq(prev, P)

\* slip: the old amount is reversed against the category of the new record
EditBudgetsOneCategory(prev, oldTransaction, t) ==
    LET reversed == IF oldTransaction.type = "expense"
                    THEN ReverseSpent(prev, [oldTransaction EXCEPT
                                                !.category = t.category])
                    ELSE prev
    IN  IF t.type = "expense" THEN ApplySpent(reversed, t) ELSE reversed

\* the budgets after editTransaction found oldTransaction and got t
EditBudgets(prev, oldTransaction, t) ==
    LET reversed == IF oldTransaction.type = "expense"
                    THEN ReverseSpent(prev, oldTransaction) ELSE prev
    IN  IF t.type = "expense" THEN ApplySpent(reversed, t) ELSE reversed

\* slip: a deleted income is reversed as if it had been spending
DeleteBudgetsAnyType(prev, transaction) == ReverseSpent(prev, transaction)

\* the budgets after deleteTransaction found transaction
DeleteBudgets(prev, transaction) ==
    IF transaction.type = "expense" THEN ReverseSpent(prev, transaction) ELSE prev

EditTransaction(id, t) ==
    LET oldTransaction == Lookup(rendered.transactions, id)
    IN  /\ call' = Called("editTransaction", id, oldTransaction # Undefined)
        /\ allNonNegative' = (allNonNegative /\ t.amount >= 0)
        /\ Count
        /\ returned' = <<>>
        /\ UNCHANGED <<savings, roundUpSavings, now>>
        /\ IF oldTransaction = Undefined
           THEN /\ UNCHANGED <<transactions, budgets>>
           ELSE /\ transactions' = ReplaceById(transactions, id, t)
                /\ budgets' = EditBudgets(budgets, oldTransaction, t)
        /\ run' = NewRun(budgets')

DeleteTransaction(id) ==
    LET transaction == Lookup(rendered.transactions, id)
    IN  /\ call' = IF call.op = "addTransaction" /\ call.id = id
                   THEN [call EXCEPT !.op = "deleteTransaction",
                                     !.found = transaction # Undefined,
                                     !.undo = TRUE]
                   ELSE Called("deleteTransaction", id, transaction # Undefined)
        /\ UNCHANGED allNonNegative
        /\ Count
        /\ returned' = <<>>
        /\ UNCHANGED <<savings, roundUpSavings, now>>
        /\ IF transaction = Undefined
           THEN /\ UNCHANGED <<transactions, budgets>>
           ELSE /\ transactions' = RemoveById(transactions, id)
                /\ budgets' = DeleteBudgets(budgets, transaction)
        /\ run' = NewRun(budgets')

\* setSavings(prev => [...prev, newGoal])
AddSavingsGoal(goal, elapsed) ==
    /\ now' = now + elapsed
    /\ savings' = Append(savings,
          [id |-> ToString(now'), name |-> goal.name, target |-> goal.target,
           current |-> goal.current, deadline |-> goal.deadline])
    /\ call' = Called("addSavingsGoal", ToString(now'), FALSE)
    /\ UNCHANGED allNonNegative
    /\ run' = NewRun(budgets)
    /\ Count
    /\ returned' = <<>>
    /\ UNCHANGED <<transactions, budgets, roundUpSavings>>

\* prev.map(budget => budget.category === category ? {...budget, limit} : budget)
SetLimit(prev, category, limit) ==
    LET F(budget) == IF budget.category = category
                     THEN [budget EXCEPT !.limit = limit] ELSE budget
    IN  [i \in 1..Len(prev) |-> F(prev[i])]

UpdateBudget(category, limit) ==
    /\ budgets' = SetLimit(budgets, category, limit)
    /\ call' = Called("updateBudget", <<>>, FALSE)
    /\ UNCHANGED allNonNegative
    /\ run' = NewRun(budgets')
    /\ Count
    /\ returned' = <<>>
    /\ UNCHANGED <<transactions, savings, roundUpSavings, now>>

(***************************************************************************)
(* The readers.                                                            *)
(***************************************************************************)
IsIncome(t) == t.type = "income"
IsExpense(t) == t.type = "expense"

TotalIncome(txs) == SumAmounts(SelectSeq(txs, IsIncome))
TotalExpenses(txs) == SumAmounts(SelectSeq(txs, IsExpense))

\* slip: a purchase that takes the whole balance is refused
AffordableStrict(txs, amount) == TotalIncome(txs) - TotalExpenses(txs) > amount

\* availableBalance >= amount
Affordable(txs, amount) == TotalIncome(txs) - TotalExpenses(txs) >= amount

Suggestions ==
    << "Consider saving for a few more days before this purchase",
       "Try the 24-hour rule before buying non-essentials",
       "Look for alternatives or wait for a sale",
       "Focus on your savings goals first",
       "Skip one dining out to make room for this purchase" >>

AffirmingMessage == "You can afford this! Consider your other goals too."

\* slip: the refusal draws from the catalog of checkRegretRisk
CanAffordResultOtherCatalog(txs, amount, k) ==
    LET canAfford == Affordable(txs, amount)
    IN  [amount |-> amount,
         canAfford |-> canAfford,
         suggestion |->
             IF canAfford THEN AffirmingMessage
             ELSE << "You've been spending a lot in this category lately. Sure about this?",
                     "Remember your savings goals. Is this purchase aligned?",
                     "You bought something similar recently. Still need it?",
                     "This might push you over budget. Consider waiting?",
                     "Great choice! This fits well within your budget." >>[k]]

\* canAfford(amount), with Math.floor(Math.random() * suggestions.length) = k - 1
CanAffordResult(txs, amount, k) ==
    LET canAfford == Affordable(txs, amount)
    IN  [amount |-> amount,
         canAfford |-> canAfford,
         suggestion |-> IF canAfford THEN AffirmingMessage ELSE Suggestions[k]]

\* the expenses of one category
CategoryExpenses(txs, category) ==
    LET P(t) == t.type = "expense" /\ t.category = category
    IN  SumAmounts(SelectSeq(txs, P))

Messages ==
    << "You've been spending a lot in this category lately. Sure about this?",
       "Remember your savings goals. Is this purchase aligned?",
       "You bought something similar recently. Still need it?",
       "This might push you over budget. Consider waiting?",
       "Great choice! This fits well within your budget." >>

\* slip: a category without budget counts as fully spent
RiskDefaultOne(txs, bs, amount, category) ==
    IF HasBudget(bs, category)
    THEN Divide(CategoryExpenses(txs, category) + amount,
                BudgetOf(bs, category).limit)
    ELSE Fraction(1, 1)

\* budget ? (categoryExpenses + amount) / budget.limit : 0.5
Risk(txs, bs, amount, category) ==
    IF HasBudget(bs, category)
    THEN Divide(CategoryExpenses(txs, category) + amount,
                BudgetOf(bs, category).limit)
    ELSE Fraction(1, 2)

\* slip: the caution starts at 0.8 instead of above it
CheckRegretRiskResultFromThreshold(txs, bs, amount, category, k) ==
    LET risk == Risk(txs, bs, amount, category)
    IN  [amount |-> amount, category |-> category,
         risk |-> MinWithOne(risk),
         message |-> IF GreaterThan(risk, 4, 5) \/ risk = Fraction(4, 5)
                     THEN Messages[k] ELSE Messages[5]]

\* checkRegretRisk(amount, category), with Math.floor(Math.random() * 4) = k - 1
CheckRegretRiskResult(txs, bs, amount, category, k) ==
    LET risk == Risk(txs, bs, amount, category)
    IN  [amount |-> amount, category |-> category,
         risk |-> MinWithOne(risk),
         message |-> IF GreaterThan(risk, 4, 5) THEN Messages[k] ELSE Messages[5]]

(***************************************************************************)
(* The scheduling of calls.                                                *)
(***************************************************************************)
\* milliseconds by which a reading of Date.now() may exceed the one before
Elapsed == {0, 1}

\* the provider re-renders: the closures capture the current state
Render == rendered' = [transactions |-> transactions', budgets |-> budgets']

\* every call is made from its own event, and React re-renders the provider
\* before the next event is handled
Next ==
    \/ \E t \in TxInputs, e \in Elapsed :
          AddTransaction(t, e) /\ Render /\ UNCHANGED outsideFinance
    \/ \E id \in IdInputs, t \in TxInputs :
          EditTransaction(id, t) /\ Render /\ UNCHANGED outsideFinance
    \/ \E id \in IdInputs :
          DeleteTransaction(id) /\ Render /\ UNCHANGED outsideFinance
    \/ \E goal \in GoalInputs, e \in Elapsed :
          AddSavingsGoal(goal, e) /\ Render /\ UNCHANGED outsideFinance
    \/ \E cl \in LimitInputs :
          UpdateBudget(cl[1], cl[2]) /\ Render /\ UNCHANGED outsideFinance

Spec == Init /\ [][Next]_vars

\* identifiers a caller may name between two renders: also those of the
\* records the last render showed
SameRenderIdInputs ==
    IdInputs \cup {rendered.transactions[i].id : i \in 1..Len(rendered.transactions)}

\* the provider re-renders after the calls of one event: the queued updates
\* have been applied and the closures capture the state they gave
RenderAfterCalls ==
    /\ rendered # [transactions |-> transactions, budgets |-> budgets]
    /\ UNCHANGED <<transactions, savings, budgets, roundUpSavings, now, returned,
                   call, run, allNonNegative, calls>>
    /\ UNCHANGED outsideFinance
    /\ Render

\* one event handler may make several calls: they all run in the closures of
\* the last render, and React re-renders when the handler is done
SameRenderNext ==
    \/ \E t \in TxInputs, e \in Elapsed :
          AddTransaction(t, e) /\ UNCHANGED <<rendered, outsideFinance>>
    \/ \E id \in SameRenderIdInputs, t \in TxInputs :
          EditTransaction(id, t) /\ UNCHANGED <<rendered, outsideFinance>>
    \/ \E id \in SameRenderIdInputs :
          DeleteTransaction(id) /\ UNCHANGED <<rendered, outsideFinance>>
    \/ \E goal \in GoalInputs, e \in Elapsed :
          AddSavingsGoal(goal, e) /\ UNCHANGED <<rendered, outsideFinance>>
    \/ \E cl \in LimitInputs :
          UpdateBudget(cl[1], cl[2]) /\ UNCHANGED <<rendered, outsideFinance>>
    \/ RenderAfterCalls

SameRenderSpec == Init /\ [][SameRenderNext]_vars

\* the provider mounts with or without a session saved by an earlier visit
AuthInit ==
    /\ FinanceInit
    /\ \E entries \in {NoEntries, Entry("financeApp_user", Stringify(SavedUser))} :
          Mounted(entries)
    /\ answer = NoAnswer
    /\ VoiceMounted(TRUE)

\* the calls made on the auth provider and the timers they await
AuthNext ==
    \/ \E email \in Emails, password \in Passwords, e \in AuthElapsed :
          Login(email, password, e) /\ UNCHANGED outsideAuth
    \/ \E name \in Names, email \in Emails, password \in Passwords,
          e \in AuthElapsed :
          Register(name, email, password, e) /\ UNCHANGED outsideAuth
    \/ \E provider \in Providers, e \in AuthElapsed :
          SocialLogin(provider, e) /\ UNCHANGED outsideAuth
    \/ \E e \in AuthElapsed : Logout(e) /\ UNCHANGED outsideAuth
    \/ \E p \in pending : Resume(p) /\ UNCHANGED outsideAuth

AuthSpec == AuthInit /\ [][AuthNext]_vars

(***************************************************************************)
(* The readers as calls.  A reader changes nothing; the specification that *)
(* follows them notes what the last one returned.  The stores they are     *)
(* asked about are those the provider reaches from the seed by deleting    *)
(* seeded records, setting a limit and adding up to MaxAdded records.      *)
(***************************************************************************)
CanAfford(amount, k) ==
    /\ answer' = [op |-> "canAfford",
                  result |-> CanAffordResult(rendered.transactions, amount, k)]
    /\ UNCHANGED <<financeVars, now, authVars, voiceVars>>

CheckRegretRisk(amount, category, k) ==
    /\ answer' = [op |-> "checkRegretRisk",
                  result |-> CheckRegretRiskResult(rendered.transactions,
                                                   rendered.budgets, amount,
                                                   category, k)]
    /\ UNCHANGED <<financeVars, now, authVars, voiceVars>>

SeedStore ==
    [transactions |-> SeedTransactions, budgets |-> SeedBudgets,
     roundUpSavings |-> SeedRoundUp, now |-> FirstNow]

RECURSIVE SeedsDeleted(_, _)
\* the store after deleteTransaction of the seeded records at the positions D
SeedsDeleted(store, D) ==
    IF D = {} THEN store
    ELSE LET i == CHOOSE d \in D : TRUE
             transaction == SeedTransactions[i]
         IN  SeedsDeleted(
                 [store EXCEPT
                     !.transactions = RemoveById(@, transaction.id),
                     !.budgets = DeleteBudgets(@, transaction)],
                 D \ {i})

\* the store after updateBudget(category, limit)
LimitSet(store, category, limit) ==
    [store EXCEPT !.budgets = SetLimit(@, category, limit)]

\* the store after addTransaction(t), one millisecond later
Added(store, t) ==
    [transactions |-> Prepend(store.transactions,
                              NewTransaction(t, store.now + 1)),
     budgets |-> AddBudgets(store.budgets, t),
     roundUpSavings |-> AddRoundUp(store.roundUpSavings, t),
     now |-> store.now + 1]

RECURSIVE StoresAfter(_)
\* the stores after at most n addTransaction calls
StoresAfter(n) ==
    IF n = 0
    THEN LET deleted == {SeedsDeleted(SeedStore, D) :
                             D \in SUBSET (1..Len(SeedTransactions))}
         IN  deleted \cup {LimitSet(s, cl[1], cl[2]) :
                               s \in deleted, cl \in LimitInputs}
    ELSE LET before == StoresAfter(n - 1)
         IN  before \cup {Added(s, t) : s \in before, t \in TxInputs}

QueryInit ==
    /\ \E store \in StoresAfter(MaxAdded) :
          /\ transactions = store.transactions
          /\ budgets = store.budgets
          /\ roundUpSavings = store.roundUpSavings
          /\ now = store.now
          /\ rendered = [transactions |-> store.transactions,
                         budgets |-> store.budgets]
          /\ run = NewRun(store.budgets)
    /\ savings = SeedSavings
    /\ returned = <<>>
    /\ call = NoCall
    /\ allNonNegative = TRUE
    /\ calls = 0
    /\ Mounted(NoEntries)
    /\ answer = NoAnswer
    /\ VoiceMounted(TRUE)

QueryNext ==
    \/ \E a \in QueryAmounts, k \in 1..Len(Suggestions) : CanAfford(a, k)
    \/ \E a \in RiskAmounts, c \in QueryCategories, k \in 1..4 :
          CheckRegretRisk(a, c, k)

QuerySpec == QueryInit /\ [][QueryNext]_vars

(***************************************************************************)
(* The voice entry modal: its handlers, the recognition's events and the   *)
(* timeouts, each handled as one event.  The modal re-renders after every  *)
(* event, so a handler sees the state the event before it left.            *)
(***************************************************************************)
VoiceElapsed == {0, 500}

\* the event loop runs a timeout that is due before it handles a later event
NoTimeoutDueBefore(clock) == \A i \in 1..Len(timers) : timers[i].due >= clock

\* setTimeout(callback, delay)
SetTimeout(queue, kind, text, clock, delay) ==
    Append(queue, [kind |-> kind, text |-> text, due |-> clock + delay])

\* an event other than a timeout is handled after elapsed milliseconds
Event(elapsed) ==
    /\ now' = now + elapsed
    /\ NoTimeoutDueBefore(now')

\* the user acts on the modal, which is rendered only while isOpen
Click(elapsed) ==
    /\ isOpen
    /\ voiceCalls < MaxVoiceCalls
    /\ voiceCalls' = voiceCalls + 1
    /\ Event(elapsed)

\* the parent passes isOpen = true; the effect on [isOpen] finds it open
Open ==
    /\ ~isOpen
    /\ isOpen' = TRUE
    /\ UNCHANGED <<isListening, transcript, parsedTransaction, isProcessing,
                   speechRecognition, recognitions, timers, committed,
                   voiceCalls, now, financeVars>>

\* onClose from the backdrop, the X or Cancel: the parent passes isOpen =
\* false and the effect on [isOpen] calls resetModal
OnClose(elapsed) ==
    /\ Click(elapsed)
    /\ isOpen' = FALSE
    /\ transcript' = <<>>
    /\ parsedTransaction' = Null
    /\ isProcessing' = FALSE
    /\ isListening' = FALSE
    /\ committed' = 0
    /\ UNCHANGED <<speechRecognition, recognitions, timers, financeVars>>

\* startListening, from the microphone button while it does not listen
StartListening(elapsed) ==
    /\ Click(elapsed)
    /\ ~isProcessing
    /\ ~isListening
    /\ transcript' = <<>>
    /\ parsedTransaction' = Null
    /\ committed' = 0
    /\ IF speechRecognition
       THEN /\ isListening' = TRUE
            /\ recognitions' = recognitions \cup
                  {[n |-> voiceCalls', settled |-> FALSE]}
       ELSE /\ isListening' = FALSE
            /\ UNCHANGED recognitions
    /\ UNCHANGED <<isOpen, isProcessing, speechRecognition, timers,
                   financeVars>>

\* stopListening, from the microphone button while it listens
StopListening(elapsed) ==
    /\ Click(elapsed)
    /\ ~isProcessing
    /\ isListening
    /\ isListening' = FALSE
    /\ UNCHANGED <<isOpen, transcript, parsedTransaction, isProcessing,
                   speechRecognition, recognitions, timers, committed,
                   financeVars>>

\* recognition.onresult: setTranscript and parseTranscript, which sets the
\* timeout that will parse the text
OnResult(r, text, elapsed) ==
    /\ r \in recognitions
    /\ ~r.settled
    /\ Event(elapsed)
    /\ transcript' = text
    /\ isProcessing' = TRUE
    /\ timers' = SetTimeout(timers, "parse", text, now', 1500)
    /\ recognitions' = (recognitions \ {r}) \cup {[r EXCEPT !.settled = TRUE]}
    /\ UNCHANGED <<isOpen, isListening, parsedTransaction, speechRecognition,
                   committed, voiceCalls, financeVars>>

\* recognition.onerror
OnError(r, elapsed) ==
    /\ r \in recognitions
    /\ ~r.settled
    /\ Event(elapsed)
    /\ isListening' = FALSE
    /\ recognitions' = (recognitions \ {r}) \cup {[r EXCEPT !.settled = TRUE]}
    /\ UNCHANGED <<isOpen, transcript, parsedTransaction, isProcessing,
                   speechRecognition, timers, committed, voiceCalls,
                   financeVars>>

\* recognition.onend
OnEnd(r, elapsed) ==
    /\ r \in recognitions
    /\ Event(elapsed)
    /\ isListening' = FALSE
    /\ recognitions' = recognitions \ {r}
    /\ UNCHANGED <<isOpen, transcript, parsedTransaction, isProcessing,
                   speechRecognition, timers, committed, voiceCalls,
                   financeVars>>

\* the timeout that runs next: the earliest due, the first set among equals
RunsNext(i) ==
    /\ i \in 1..Len(timers)
    /\ \A j \in 1..Len(timers) :
          timers[i].due < timers[j].due \/ (timers[i].due = timers[j].due /\ i <= j)

Without(queue, i) == SubSeq(queue, 1, i - 1) \o SubSeq(queue, i + 1, Len(queue))

\* the callback of parseTranscript's timeout
ParseTimeout(i) ==
    /\ RunsNext(i)
    /\ timers[i].kind = "parse"
    /\ now' = Max(now, timers[i].due)
    /\ parsedTransaction' = Candidate(timers[i].text, now')
    /\ isProcessing' = FALSE
    /\ committed' = 0
    /\ timers' = Without(timers, i)
    /\ UNCHANGED <<isOpen, isListening, transcript, speechRecognition,
                   recognitions, voiceCalls, financeVars>>

\* confirmTransaction, from Confirm & Add, which is rendered while
\* parsedTransaction is set
ConfirmTransaction(elapsed) ==
    /\ Click(elapsed)
    /\ parsedTransaction # Null
    /\ AddTransaction(parsedTransaction, elapsed)
    /\ Render
    /\ timers' = SetTimeout(timers, "close", <<>>, now', 1000)
    /\ committed' = committed + 1
    /\ UNCHANGED <<isOpen, isListening, transcript, parsedTransaction,
                   isProcessing, speechRecognition, recognitions>>

\* the callback of confirmTransaction's timeout: onClose, then the two
\* setters; the effect on [isOpen] calls resetModal if the modal was open
CloseTimeout(i) ==
    /\ RunsNext(i)
    /\ timers[i].kind = "close"
    /\ now' = Max(now, timers[i].due)
    /\ isOpen' = FALSE
    /\ transcript' = <<>>
    /\ parsedTransaction' = Null
    /\ isProcessing' = IF isOpen THEN FALSE ELSE isProcessing
    /\ isListening' = IF isOpen THEN FALSE ELSE isListening
    /\ committed' = 0
    /\ timers' = Without(timers, i)
    /\ UNCHANGED <<speechRecognition, recognitions, voiceCalls, financeVars>>

\* resetModal, from Try Again, which is rendered while parsedTransaction is
\* set
ResetModal(elapsed) ==
    /\ Click(elapsed)
    /\ parsedTransaction # Null
    /\ transcript' = <<>>
    /\ parsedTransaction' = Null
    /\ isProcessing' = FALSE
    /\ isListening' = FALSE
    /\ committed' = 0
    /\ UNCHANGED <<isOpen, speechRecognition, recognitions, timers,
                   financeVars>>

\* the provider and the modal as mounted, in a browser with or without the
\* speech recognition
VoiceInit ==
    /\ FinanceInit
    /\ Mounted(NoEntries)
    /\ answer = NoAnswer
    /\ \E supported \in BOOLEAN : VoiceMounted(supported)

VoiceNext ==
    \/ Open /\ UNCHANGED <<authVars, answer>>
    \/ \E e \in VoiceElapsed : OnClose(e) /\ UNCHANGED <<authVars, answer>>
    \/ \E e \in VoiceElapsed :
          StartListening(e) /\ UNCHANGED <<authVars, answer>>
    \/ \E e \in VoiceElapsed :
          StopListening(e) /\ UNCHANGED <<authVars, answer>>
    \/ \E r \in recognitions, text \in Transcripts, e \in VoiceElapsed :
          OnResult(r, text, e) /\ UNCHANGED <<authVars, answer>>
    \/ \E r \in recognitions, e \in VoiceElapsed :
          OnError(r, e) /\ UNCHANGED <<authVars, answer>>
    \/ \E r \in recognitions, e \in VoiceElapsed :
          OnEnd(r, e) /\ UNCHANGED <<authVars, answer>>
    \/ \E i \in 1..Len(timers) : ParseTimeout(i) /\ UNCHANGED <<authVars, answer>>
    \/ \E e \in VoiceElapsed :
          ConfirmTransaction(e) /\ UNCHANGED <<authVars, answer>>
    \/ \E i \in 1..Len(timers) : CloseTimeout(i) /\ UNCHANGED <<authVars, answer>>
    \/ \E e \in VoiceElapsed : ResetModal(e) /\ UNCHANGED <<authVars, answer>>

VoiceSpec == VoiceInit /\ [][VoiceNext]_vars

(***************************************************************************)
(* What the claims speak of, stated on the state itself.                   *)
(***************************************************************************)
Indices == 1..Len(transactions)

\* the sum of the amounts of the stored transactions at the indices in S
StoreSum(S) ==
    LET f[i \in 0..Len(transactions)] ==
            IF i = 0 THEN 0
            ELSE f[i - 1] + (IF i \in S THEN transactions[i].amount ELSE 0)
    IN  f[Len(transactions)]

ExpensesIn(c) ==
    StoreSum({i \in Indices : /\ transactions[i].type = "expense"
                              /\ transactions[i].category = c})

Spent(bs, c) == bs[CHOOSE i \in 1..Len(bs) : bs[i].category = c].spent

Tracked(c) == \E i \in 1..Len(budgets) : budgets[i].category = c

TrackedCategories == {budgets[i].category : i \in 1..Len(budgets)}

\* the stored record with identifier id nearest the head
Stored(txs, id) ==
    txs[CHOOSE i \in 1..Len(txs) :
            txs[i].id = id /\ \A j \in 1..(i - 1) : txs[j].id # id]

InStore(txs, id) == \E i \in 1..Len(txs) : txs[i].id = id

(***************************************************************************)
(* C1.  In every reachable state, the seeded one included, the spent of    *)
(* every Budget entry equals the sum of the amounts of the expense         *)
(* transactions of its category that are in the list.                      *)
(* The seeded state already breaks it: Entertainment and Shopping carry a  *)
(* spent of 1200 and 3500 and the list holds no expense of theirs.         *)
(***************************************************************************)
C1_SpentIsSumOfExpenses ==
    \A c \in TrackedCategories : Spent(budgets, c) = ExpensesIn(c)

(***************************************************************************)
(* C2.  Reversibility: addTransaction(t) followed by deleteTransaction of  *)
(* the identifier that call assigned leaves Budget(t.category).spent at    *)
(* the value it had before the add.                                        *)
(* As claimed it fails when that value was negative: the reversal clamps   *)
(* at zero.  What holds: for an expense t the spent ends at                *)
(* max(0, value before), for an income t at the value before.              *)
(***************************************************************************)
C2_AddThenDeleteRestores ==
    (call.op = "deleteTransaction" /\ call.undo /\ Tracked(call.category))
        => Spent(budgets, call.category) = call.before

C2_AddThenDeleteRestoresClamped ==
    (call.op = "deleteTransaction" /\ call.undo /\ Tracked(call.category))
        => Spent(budgets, call.category) =
               IF call.type = "expense" /\ call.before < 0 THEN 0 ELSE call.before

C2_Witness ==
    /\ call.op = "deleteTransaction" /\ call.undo /\ call.found
    /\ call.type = "expense" /\ Tracked(call.category)
    /\ call.before > 0
    /\ Spent(budgets, call.category) = call.before

(***************************************************************************)
(* C3.  Edit reclassification: editTransaction on a stored expense of      *)
(* amount a in budgeted category A, given an expense of amount b in        *)
(* budgeted category B, lowers Budget(A).spent by a and raises             *)
(* Budget(B).spent by b; given an income it lowers Budget(A).spent by a    *)
(* and raises none.                                                        *)
(* As claimed it fails when Budget(A).spent is below a: the reversal is    *)
(* max(0, spent - a).  What holds: Budget(A).spent becomes                 *)
(* max(0, spent - a), and after that Budget(B).spent rises by b.           *)
(***************************************************************************)
EditedOld == Stored(transactions, call'.id)
EditedNew == Stored(transactions', call'.id)

EditOfTrackedExpense ==
    /\ call'.op = "editTransaction" /\ call'.found
    /\ EditedOld.type = "expense" /\ Tracked(EditedOld.category)
    /\ EditedNew.type = "expense" => Tracked(EditedNew.category)

Raise(c) ==
    IF EditedNew.type = "expense" /\ EditedNew.category = c
    THEN EditedNew.amount ELSE 0

C3_EditMovesContribution ==
    [][EditOfTrackedExpense =>
          \A c \in TrackedCategories :
              Spent(budgets', c) =
                  (IF c = EditedOld.category
                   THEN Spent(budgets, c) - EditedOld.amount
                   ELSE Spent(budgets, c)) + Raise(c)]_vars

C3_EditMovesContributionClamped ==
    [][EditOfTrackedExpense =>
          \A c \in TrackedCategories :
              Spent(budgets', c) =
                  (IF c = EditedOld.category
                   THEN (IF Spent(budgets, c) - EditedOld.amount < 0
                         THEN 0 ELSE Spent(budgets, c) - EditedOld.amount)
                   ELSE Spent(budgets, c)) + Raise(c)]_vars

\* an edit moved the seeded Transportation expense to Food
C3_Witness ==
    /\ call.op = "editTransaction" /\ call.found /\ calls = 1
    /\ Stored(transactions, call.id).category = "Food"
    /\ Stored(transactions, call.id).type = "expense"
    /\ Spent(budgets, "Transportation") = 0
    /\ Spent(budgets, "Food") = 2500 * Unit + Stored(transactions, call.id).amount

(***************************************************************************)
(* C4.  Non-negativity: after any sequence of addTransaction,              *)
(* editTransaction and deleteTransaction calls, with any amounts the       *)
(* engine accepts, every Budget entry's spent is at least 0.               *)
(* As claimed it fails: only the reversal clamps, and an added expense of  *)
(* negative amount takes spent below zero.  What holds: as long as every  *)
(* amount passed was at least 0, every spent is at least 0.                *)
(***************************************************************************)
C4_SpentNonNegative ==
    \A c \in TrackedCategories : Spent(budgets, c) >= 0

C4_SpentNonNegativeForValidAmounts ==
    allNonNegative => \A c \in TrackedCategories : Spent(budgets, c) >= 0

\* the seeded Food expense was deleted and Food's spent stands at 0
C4_Witness ==
    /\ allNonNegative
    /\ call.op = "deleteTransaction" /\ call.found
    /\ Spent(budgets, "Food") = 0

(***************************************************************************)
(* C5.  Round-up monotonicity: the round-up accumulator never decreases,   *)
(* and only addTransaction of an expense changes it; addTransaction of an  *)
(* income, editTransaction, deleteTransaction, addSavingsGoal and          *)
(* updateBudget leave it unchanged.                                        *)
(***************************************************************************)
C5_RoundUpMonotone ==
    [][/\ roundUpSavings' >= roundUpSavings
       /\ roundUpSavings' # roundUpSavings =>
             (call'.op = "addTransaction" /\ call'.type = "expense")]_vars

C5_Witness ==
    /\ call.op \in {"editTransaction", "deleteTransaction", "addSavingsGoal",
                    "updateBudget"}
    /\ roundUpSavings > SeedRoundUp

(***************************************************************************)
(* C6.  Risk bound: for every amount (negative, zero, very large) and      *)
(* every category, checkRegretRisk(amount, category).risk lies in [0, 1].  *)
(* The code takes Math.min(risk, 1) and has no lower clamp: in the seeded  *)
(* state checkRegretRisk(-3000, 'Food') gives (2500 - 3000) / 5000 = -0.1. *)
(***************************************************************************)
InUnitInterval(r) == r.kind = "finite" /\ 0 <= r.num /\ r.num <= r.den

C6_RiskInUnitInterval ==
    \A a \in QueryAmounts, c \in QueryCategories, k \in 1..4 :
        InUnitInterval(CheckRegretRiskResult(rendered.transactions,
                                             rendered.budgets, a, c, k).risk)

(***************************************************************************)
(* C7.  NotFound is a silent no-op: editTransaction or deleteTransaction   *)
(* given an identifier no stored transaction has leaves the transaction    *)
(* list, every budget, the savings goals and the round-up accumulator      *)
(* unchanged.                                                              *)
(***************************************************************************)
C7_NotFoundIsNoOp ==
    [][(/\ call'.op \in {"editTransaction", "deleteTransaction"}
        /\ ~InStore(transactions, call'.id))
          => UNCHANGED <<transactions, budgets, savings, roundUpSavings>>]_vars

C7_Witness ==
    /\ call.op \in {"editTransaction", "deleteTransaction"}
    /\ ~call.found
    /\ ~InStore(transactions, call.id)
    /\ calls > 1

(***************************************************************************)
(* C8.  Identifier uniqueness: the identifiers in the transaction list     *)
(* are pairwise distinct, also after two addTransaction calls made at the  *)
(* same clock reading.                                                     *)
(* The identifier is Date.now().toString(): two calls within the same      *)
(* millisecond get the same one.                                           *)
(***************************************************************************)
C8_IdsDistinct ==
    \A i, j \in Indices : i # j => transactions[i].id # transactions[j].id

(***************************************************************************)
(* C9.  Additivity: a sequence of addTransaction calls raises              *)
(* Budget(C).spent, for each budgeted category C, by exactly the sum of    *)
(* the amounts of the expenses added to C in the sequence; incomes and     *)
(* expenses of other categories do not change it.                          *)
(***************************************************************************)
C9_Additivity ==
    \A c \in TrackedCategories :
        Spent(budgets, c) = run.base[c] + run.added[c]

\* Food at spent 2500 plus one Food expense of 2500 gives 5000
C9_Witness ==
    /\ call.op = "addTransaction" /\ calls = 1
    /\ Head(transactions).category = "Food"
    /\ Head(transactions).amount = 2500 * Unit
    /\ Spent(budgets, "Food") = 5000 * Unit
    /\ Spent(budgets, "Transportation") = 800 * Unit

(***************************************************************************)
(* C10.  canAfford(amount) returns canAfford = true exactly when the sum   *)
(* of the stored incomes minus the sum of the stored expenses is at least  *)
(* amount, and then the suggestion is the one affirming message.           *)
(***************************************************************************)
Balance ==
    StoreSum({i \in Indices : transactions[i].type = "income"})
        - StoreSum({i \in Indices : transactions[i].type = "expense"})

C10_CanAfford ==
    LET balance == Balance
    IN  \A a \in QueryAmounts, k \in 1..Len(Suggestions) :
            LET r == CanAffordResult(rendered.transactions, a, k)
            IN  /\ r.canAfford <=> (balance >= a)
                /\ r.canAfford =>
                      r.suggestion =
                          "You can afford this! Consider your other goals too."

\* on a changed store one positive amount is affordable and another is not
C10_Witness ==
    /\ calls > 0 /\ transactions # SeedTransactions
    /\ \E a \in QueryAmounts :
          a > 0 /\ CanAffordResult(rendered.transactions, a, 1).canAfford
    /\ \E a \in QueryAmounts :
          ~CanAffordResult(rendered.transactions, a, 1).canAfford

(***************************************************************************)
(* C11.  Whenever canAfford(amount) returns canAfford = false, the         *)
(* suggestion is a member of a fixed catalog of exactly four alternative   *)
(* messages, and no fifth message is reachable.                            *)
(* As claimed it fails: the catalog in the code has five entries and the   *)
(* index is drawn over its whole length, so five distinct messages are     *)
(* returned.  What holds: a refusal returns one of the five messages of    *)
(* the code's catalog, and each of the five can be returned.               *)
(***************************************************************************)
Refused ==
    {a \in QueryAmounts : ~CanAffordResult(rendered.transactions, a, 1).canAfford}

\* every suggestion a refusal can return in this state
RefusalSuggestions ==
    {CanAffordResult(rendered.transactions, a, k).suggestion :
         a \in Refused, k \in 1..Len(Suggestions)}

FiveSuggestions ==
    {"Consider saving for a few more days before this purchase",
     "Try the 24-hour rule before buying non-essentials",
     "Look for alternatives or wait for a sale",
     "Focus on your savings goals first",
     "Skip one dining out to make room for this purchase"}

C11_RefusalSuggestsOneOfFour ==
    Refused # {} => Cardinality(RefusalSuggestions) <= 4

C11_RefusalSuggestsOneOfFive ==
    /\ (answer.op = "canAfford" /\ ~answer.result.canAfford)
          => answer.result.suggestion \in FiveSuggestions
    /\ Refused # {} => RefusalSuggestions = FiveSuggestions

\* on a store that differs from the seed a purchase was refused with the
\* fifth message
C11_Witness ==
    /\ transactions # SeedTransactions
    /\ answer.op = "canAfford" /\ ~answer.result.canAfford
    /\ answer.result.suggestion =
           "Skip one dining out to make room for this purchase"

(***************************************************************************)
(* C12.  MissingBudgetForRisk: for a category that has no Budget entry,    *)
(* checkRegretRisk(amount, category) returns risk exactly 0.5 for every    *)
(* amount and every store content, and returns the fixed "fits your        *)
(* budget" message.                                                        *)
(***************************************************************************)
Unbudgeted(c) ==
    \A i \in 1..Len(rendered.budgets) : rendered.budgets[i].category # c

C12_MissingBudgetForRisk ==
    (answer.op = "checkRegretRisk" /\ Unbudgeted(answer.result.category)) =>
        /\ answer.result.risk = [kind |-> "finite", num |-> 1, den |-> 2]
        /\ answer.result.message =
               "Great choice! This fits well within your budget."

\* the store holds an expense of a category without budget, and a query on
\* that category answered 0.5
C12_Witness ==
    /\ \E i \in Indices : /\ transactions[i].category = "Other"
                          /\ transactions[i].type = "expense"
    /\ answer.op = "checkRegretRisk"
    /\ answer.result.category = "Other" /\ Unbudgeted("Other")
    /\ answer.result.amount = 2600 * Unit
    /\ answer.result.risk.den = 2

(***************************************************************************)
(* C13.  For a category with a Budget entry, checkRegretRisk(amount,       *)
(* category) returns one of the four caution messages when (category       *)
(* spend so far + amount) / limit exceeds 0.8 and the single fixed "fits   *)
(* your budget" message otherwise: never the fixed message above 0.8,      *)
(* never a caution message at or below it.  In the seeded state            *)
(* checkRegretRisk(2600, 'Food') returns risk 1 and a caution message.     *)
(* The quotient is the JavaScript one: over a limit of 0 it is Infinity    *)
(* (above 0.8) for a positive numerator and NaN or -Infinity (not above)   *)
(* otherwise.                                                              *)
(***************************************************************************)
CautionMessages ==
    {"You've been spending a lot in this category lately. Sure about this?",
     "Remember your savings goals. Is this purchase aligned?",
     "You bought something similar recently. Still need it?",
     "This might push you over budget. Consider waiting?"}

LimitOf(c) ==
    rendered.budgets[CHOOSE i \in 1..Len(rendered.budgets) :
                         rendered.budgets[i].category = c].limit

\* s / limit > 0.8
ExceedsThreshold(s, limit) ==
    IF limit > 0 THEN 5 * s > 4 * limit
    ELSE IF limit = 0 THEN s > 0
    ELSE 5 * s < 4 * limit

C13_CautionAboveThreshold ==
    (answer.op = "checkRegretRisk" /\ ~Unbudgeted(answer.result.category)) =>
        LET r == answer.result
        IN  /\ IF ExceedsThreshold(ExpensesIn(r.category) + r.amount,
                                   LimitOf(r.category))
               THEN r.message \in CautionMessages
               ELSE r.message = "Great choice! This fits well within your budget."
            /\ (/\ transactions = SeedTransactions /\ budgets = SeedBudgets
                /\ r.amount = 2600 * Unit /\ r.category = "Food")
                  => /\ r.risk = [kind |-> "finite", num |-> 1, den |-> 1]
                     /\ r.message \in CautionMessages

\* on a store that differs from the seed, with Food's limit above 0, a query
\* on Food that sits exactly at 0.8 got the fixed message
C13_Witness ==
    /\ transactions # SeedTransactions
    /\ answer.op = "checkRegretRisk" /\ answer.result.category = "Food"
    /\ ~Unbudgeted("Food") /\ LimitOf("Food") > 0
    /\ 5 * (ExpensesIn("Food") + answer.result.amount) = 4 * LimitOf("Food")
    /\ answer.result.message = "Great choice! This fits well within your budget."

(***************************************************************************)
(* C14.  addTransaction places the new record at the head of the list and  *)
(* keeps the relative order of the existing records, so the list is        *)
(* always ordered most-recent-added first (the added records by            *)
(* descending clock reading, then what is left of the seed in its seeded   *)
(* order); editTransaction and deleteTransaction do not reorder the        *)
(* remaining records.                                                      *)
(***************************************************************************)
RECURSIVE Number(_)
\* the number a decimal identifier denotes
Number(digits) ==
    IF digits = <<>> THEN 0
    ELSE 10 * Number(SubSeq(digits, 1, Len(digits) - 1)) + digits[Len(digits)]

Seeded(t) == Number(t.id) < FirstNow

MostRecentFirst(txs) ==
    \A i, j \in 1..Len(txs) :
        i < j =>
            IF Seeded(txs[i])
            THEN Seeded(txs[j]) /\ Number(txs[i].id) < Number(txs[j].id)
            ELSE Seeded(txs[j]) \/ Number(txs[i].id) >= Number(txs[j].id)

\* the positions of the records a deleteTransaction(id) leaves in the list
Kept(id) == {i \in Indices : transactions[i].id # id}

\* the n-th smallest member of the set S of positions
Nth(S, n) == CHOOSE i \in S : Cardinality({m \in S : m <= i}) = n

C14_OrderKept ==
    [][/\ call'.op = "addTransaction" =>
             /\ Head(transactions').id = call'.id
             /\ Tail(transactions') = transactions
       /\ call'.op = "editTransaction" =>
             /\ Len(transactions') = Len(transactions)
             /\ \A i \in Indices : transactions'[i].id = transactions[i].id
       /\ call'.op = "deleteTransaction" =>
             /\ Len(transactions') =
                    IF call'.found THEN Cardinality(Kept(call'.id))
                    ELSE Len(transactions)
             /\ call'.found =>
                    \A n \in 1..Len(transactions') :
                        transactions'[n] = transactions[Nth(Kept(call'.id), n)]
       /\ MostRecentFirst(transactions')]_vars

\* a delete took a record out from between an added record at the head and
\* a seeded record at the tail
C14_Witness ==
    /\ call.op = "deleteTransaction" /\ call.found
    /\ Len(transactions) >= 3
    /\ ~Seeded(transactions[1])
    /\ Seeded(transactions[Len(transactions)])
    /\ transactions[Len(transactions)].id = <<3>>
    /\ \E i \in Indices : transactions[i].id = <<1>>
    /\ \A i \in Indices : transactions[i].id # <<2>>

(***************************************************************************)
(* C15.  addTransaction returns to its caller the identifier it assigned   *)
(* to the new transaction: the returned value equals the id of the record  *)
(* now at the head of the transaction list.                                *)
(* As claimed it fails: the handler is declared (transaction) => void and  *)
(* has no return statement, so the caller gets no value.  What holds:      *)
(* addTransaction returns nothing, and the identifier it assigned is the   *)
(* decimal form of the clock reading, carried by the record at the head.   *)
(***************************************************************************)
C15_AddReturnsId ==
    call.op = "addTransaction" => returned = <<Head(transactions).id>>

C15_AddReturnsNothing ==
    call.op = "addTransaction" =>
        /\ returned = <<>>
        /\ Number(Head(transactions).id) = now

C15_Witness ==
    /\ call.op = "addTransaction" /\ calls = 2
    /\ returned = <<>>
    /\ Head(transactions).id = <<1, 4>>

(***************************************************************************)
(* C16.  UntrackedCategory: addTransaction of an expense whose category    *)
(* has no Budget entry stores the transaction, leaves the budgets          *)
(* collection completely unchanged and reports no error; and no            *)
(* transaction operation ever adds or removes a Budget entry.              *)
(***************************************************************************)
C16_UntrackedCategory ==
    [][/\ (/\ call'.op = "addTransaction" /\ call'.type = "expense"
           /\ ~Tracked(call'.category))
             => /\ budgets' = budgets
                /\ Len(transactions') = Len(transactions) + 1
                /\ Head(transactions').category = call'.category
                /\ Head(transactions').type = "expense"
                /\ returned' = <<>>
       /\ call'.op \in {"addTransaction", "editTransaction", "deleteTransaction"}
             => /\ Len(budgets') = Len(budgets)
                /\ \A i \in 1..Len(budgets) :
                       budgets'[i].category = budgets[i].category]_vars

\* an expense of the category Other, which has no entry, was added
C16_Witness ==
    /\ call.op = "addTransaction" /\ call.type = "expense"
    /\ call.category = "Other" /\ ~Tracked("Other")
    /\ Head(transactions).category = "Other"
    /\ Head(transactions).amount = 9940
    /\ budgets = SeedBudgets

(***************************************************************************)
(* C17.  addTransaction of an expense of amount a raises the round-up      *)
(* accumulator by exactly ceil(a) - a when that difference is strictly     *)
(* positive and leaves it unchanged when a is a whole number (an expense   *)
(* of 99.40 raises it by 0.60), whether or not the expense's category has  *)
(* a Budget entry.                                                         *)
(***************************************************************************)
\* what is missing from a to the next whole number, in hundredths
ToNextWhole(a) == (Unit - (a % Unit)) % Unit

C17_RoundUpIncrement ==
    [][(call'.op = "addTransaction" /\ call'.type = "expense") =>
          LET a == Head(transactions').amount
          IN  /\ roundUpSavings' = roundUpSavings + ToNextWhole(a)
              /\ a = 9940 => roundUpSavings' - roundUpSavings = 60
              /\ a % Unit = 0 => roundUpSavings' = roundUpSavings]_vars

\* 99.40 spent in a category without entry, after a whole amount spent in a
\* category with one: the accumulator stands 0.60 above the seed
C17_Witness ==
    /\ call.op = "addTransaction" /\ call.type = "expense" /\ calls = 2
    /\ ~Tracked(call.category)
    /\ Head(transactions).amount = 9940
    /\ transactions[2].amount = 2500 * Unit /\ Tracked(transactions[2].category)
    /\ ~Seeded(transactions[2])
    /\ roundUpSavings = SeedRoundUp + 60

(***************************************************************************)
(* C18.  Exactly-once reconciliation under same-snapshot calls: when       *)
(* several mutator calls are issued before the provider re-renders, each   *)
(* transaction's budget contribution is still applied and reversed exactly *)
(* once: a deleteTransaction or editTransaction of an identifier whose     *)
(* record is no longer in the list changes no budget (two deletes of the   *)
(* same expense lower the spent once), and a deleteTransaction of a record *)
(* that is in the list removes it (also right after the addTransaction     *)
(* that created it).                                                       *)
(* The handlers look the target up in the list captured at the last        *)
(* render: a second deleteTransaction of the same id finds the record      *)
(* there again and lowers the spent a second time, and a record added      *)
(* since the render is not found, so its delete does nothing.              *)
(***************************************************************************)
C18_ExactlyOnce ==
    [][(/\ calls' # calls
        /\ call'.op \in {"editTransaction", "deleteTransaction"})
          => IF InStore(transactions, call'.id)
             THEN call'.op = "deleteTransaction"
                      => ~InStore(transactions', call'.id)
             ELSE budgets' = budgets]_vars

(***************************************************************************)
(* C19.  editTransaction(id, newFields) on an existing id replaces exactly *)
(* that record with newFields carrying the same id, at the same position   *)
(* in the list; the number of transactions, every other record, the        *)
(* savings goals and the round-up accumulator are unchanged.               *)
(* The map of editTransaction replaces every record whose id equals the    *)
(* one given: when two records share an identifier (C8) both are replaced. *)
(***************************************************************************)
\* the position of the record transactions.find(t => t.id === id) returns
FirstWith(id) ==
    CHOOSE p \in Indices :
        transactions[p].id = id /\ \A q \in 1..(p - 1) : transactions[q].id # id

EditReplacesOne ==
    (call'.op = "editTransaction" /\ InStore(transactions, call'.id)) =>
        LET p == FirstWith(call'.id)
        IN  /\ Len(transactions') = Len(transactions)
            /\ transactions'[p].id = call'.id
            /\ \E t \in TxInputs :
                   transactions'[p] =
                       [id |-> call'.id, amount |-> t.amount,
                        category |-> t.category, description |-> t.description,
                        date |-> t.date, type |-> t.type]
            /\ \A i \in Indices : i # p => transactions'[i] = transactions[i]
            /\ savings' = savings
            /\ roundUpSavings' = roundUpSavings

C19_EditReplacesOne == [][EditReplacesOne]_vars

(***************************************************************************)
(* C20.  Auth session: once logout() has run, user is null,                *)
(* isAuthenticated is false and the cached 'financeApp_user' record is     *)
(* absent, and they stay so until a login, register or socialLogin call    *)
(* started after that logout completes; a call whose simulated delay was   *)
(* already pending when logout ran does not re-authenticate the session.   *)
(* Nothing cancels a pending call: when its timer fires after the logout   *)
(* it sets the user, isAuthenticated and the cached record again.          *)
(***************************************************************************)
C20_LogoutHolds ==
    [][/\ authCall'.op = "logout" =>
             /\ user' = Null
             /\ isAuthenticated' = FALSE
             /\ "financeApp_user" \notin DOMAIN localStorage'
       /\ authCall'.op \in {"login", "register", "socialLogin"} =>
             UNCHANGED <<user, isAuthenticated, localStorage>>
       /\ (authCall'.op = "resume" /\ authCall'.stale) =>
             UNCHANGED <<user, isAuthenticated, localStorage>>]_vars

(***************************************************************************)
(* C21: each parsed candidate is committed to the ledger at most once: no  *)
(* state is reached in which addTransaction has been called more than once *)
(* for the parsedTransaction the modal holds, so that a second             *)
(* confirmTransaction before the modal closes adds nothing.  The check     *)
(* under VoiceSpec finds it violated: Confirm & Add stays enabled and      *)
(* confirmTransaction has no guard but the candidate being set, so a       *)
(* second click within the 1000 ms adds the same candidate again.          *)
(***************************************************************************)
C21_CommittedAtMostOnce == committed <= 1


====
